---- MODULE Spec2Model ----
(***************************************************************************)
(* A model of build.py, the Fedora Docs RAG database builder: the          *)
(* repository resolver (extract_repos_from_site, clone_repos), the         *)
(* component deduplicator and playbook synthesizer                         *)
(* (create_antora_playbook), the content extractor (extract_html_content)  *)
(* and the pipeline driver (main).                                         *)
(*                                                                         *)
(* Python strings are modelled as sequences of one-character strings, so   *)
(* that str.replace, str.split, str.rstrip, startswith and endswith are    *)
(* computed character by character, as Python computes them.               *)
(***************************************************************************)
EXTENDS Integers, Sequences, FiniteSets, TLC

VARIABLES
    pc,                   \* position of the running function
    \* ---- extract_repos_from_site / clone_repos
    site_yml,             \* site.yml: its state and the "url" values of content.sources
    repos,                \* unique_urls, the list handed to clone_repos
    url_pos,              \* index in repos of the URL the for loop takes next
    dirs,                 \* names of the directories that exist under work_dir
    cloned,               \* clone_repos: cloned (repo_dir names, in order)
    cloned_urls,          \* history: the URL each entry of cloned came from
    failed,               \* clone_repos: failed
    git_runs,             \* history: the git command run for each URL and its exit status
    \* ---- create_antora_playbook
    repo_dirs,            \* the checkout list
    checkout,             \* content of the checkout being walked
    repo_pos,             \* index in repo_dirs of the checkout being walked
    sub_pos,              \* index of the next subdirectory of that checkout
    repo_has_antora,
    sources,              \* the rendered source entries
    source_details,       \* the accepted components
    seen_components,      \* the name registry
    skipped_duplicates,
    repos_without_antora,
    playbook,             \* work_dir/site.yml as written by this call, or NoFile
    discovered,           \* history: every component discovered, in discovery order
    \* ---- extract_html_content
    public,               \* work_dir/public: whether it exists and the pages
                          \* public_dir.rglob("*.html") yields, in order
    page_pos,             \* index in public of the page the for loop takes next
    output_dir,           \* the destination directory: file name -> content
    unwritable,           \* the file names write_text raises OSError for there
    count,
    skipped_no_article,
    parsed,               \* history: indexes of the pages parsed in this call
    written,              \* history: <<page index, out_name>> of each page written
    run_no,               \* which call of extract_html_content is running (1 or 2)
    first_run,            \* history: output_dir and count when the first call returned
    \* ---- main
    rc,                   \* main's return value, NoRc while running
    work_dir,             \* "absent" | "present" | "removed" (removed by cleanup)
    started               \* history: the stages main has started, in order

resolverVars == <<site_yml, repos, url_pos, dirs, cloned, cloned_urls, failed, git_runs>>
playbookVars == <<repo_dirs, checkout, repo_pos, sub_pos, repo_has_antora, sources,
                  source_details, seen_components, skipped_duplicates,
                  repos_without_antora, playbook, discovered>>
extractVars  == <<public, page_pos, output_dir, unwritable, count, skipped_no_article, parsed,
                  written, run_no, first_run>>
mainVars     == <<rc, work_dir, started>>
vars == <<pc, resolverVars, playbookVars, extractVars, mainVars>>

\* ------------------------------------------------------------------ bounds
MaxUrls == 3       \* entries of content.sources
MaxRepos == 3      \* checkouts handed to create_antora_playbook
MaxPages == 3      \* pages of the output tree

\* ------------------------------------------------------------------ strings
HTTPS == <<"h","t","t","p","s",":","/","/">>
HTTP == <<"h","t","t","p",":","/","/">>
GITAT == <<"g","i","t","@">>
DOTGIT == <<".","g","i","t">>
DOTHTML == <<".","h","t","m","l">>
EMPTY == <<>>

StartsWith(s, p) == Len(s) >= Len(p) /\ SubSeq(s, 1, Len(p)) = p
EndsWith(s, p) == Len(s) >= Len(p) /\ SubSeq(s, Len(s) - Len(p) + 1, Len(s)) = p

\* str.rstrip(ch)
RECURSIVE RStrip(_, _)
RStrip(s, ch) ==
    IF Len(s) > 0 /\ s[Len(s)] = ch THEN RStrip(SubSeq(s, 1, Len(s) - 1), ch) ELSE s

\* str.replace(old, new): every non-overlapping occurrence, left to right
RECURSIVE Replace(_, _, _)
Replace(s, old, new) ==
    IF Len(s) < Len(old) THEN s
    ELSE IF SubSeq(s, 1, Len(old)) = old
         THEN new \o Replace(SubSeq(s, Len(old) + 1, Len(s)), old, new)
         ELSE <<Head(s)>> \o Replace(Tail(s), old, new)

\* str.split(sep) for a one-character separator
RECURSIVE Split(_, _)
Split(s, sep) ==
    IF \A i \in 1..Len(s) : s[i] # sep THEN <<s>>
    ELSE LET k == CHOOSE i \in 1..Len(s) : s[i] = sep /\ \A j \in 1..(i - 1) : s[j] # sep
         IN <<SubSeq(s, 1, k - 1)>> \o Split(SubSeq(s, k + 1, Len(s)), sep)

\* sep.join(parts)
RECURSIVE Join(_, _)
Join(parts, sep) ==
    IF Len(parts) = 0 THEN EMPTY
    ELSE IF Len(parts) = 1 THEN parts[1]
    ELSE parts[1] \o sep \o Join(Tail(parts), sep)

Range(s) == {s[i] : i \in 1..Len(s)}

\* ------------------------------------------------------------------ resolver
\* The URLs a site.yml may list: <<org, repo>> are the last two path segments.
A_B == <<"a","_","b">>
B_C == <<"b","_","c">>
UrlParts ==
    { [scheme |-> HTTPS, org |-> A_B,      repo |-> <<"c">>, suffix |-> DOTGIT],
      [scheme |-> HTTPS, org |-> A_B,      repo |-> <<"c">>, suffix |-> EMPTY],
      [scheme |-> HTTPS, org |-> <<"a">>,  repo |-> B_C,     suffix |-> DOTGIT],
      [scheme |-> HTTPS, org |-> <<"a">>,  repo |-> <<"c">>, suffix |-> DOTGIT],
      [scheme |-> EMPTY, org |-> <<"a">>,  repo |-> <<"c">>, suffix |-> DOTGIT] }
UrlText(p) == p.scheme \o <<"h","/">> \o p.org \o <<"/">> \o p.repo \o p.suffix
\* a source entry without a "url" key reads as the empty string
SiteUrls == {UrlText(p) : p \in UrlParts} \cup {EMPTY}

SeqsUpTo(S, n) == UNION {[1..k -> S] : k \in 0..n}

\* if url and url.startswith(("https://", "http://", "git@"))
Recognized(url) ==
    /\ url # EMPTY
    /\ StartsWith(url, HTTPS) \/ StartsWith(url, HTTP) \/ StartsWith(url, GITAT)

\* if not url.endswith(".git"): url = url + ".git"
NormalizeUrl(url) == IF EndsWith(url, DOTGIT) THEN url ELSE url \o DOTGIT

\* the first loop of extract_repos_from_site
RECURSIVE CollectUrls(_)
CollectUrls(srcs) ==
    IF srcs = <<>> THEN <<>>
    ELSE IF Recognized(Head(srcs))
         THEN <<NormalizeUrl(Head(srcs))>> \o CollectUrls(Tail(srcs))
         ELSE CollectUrls(Tail(srcs))

\* "Deduplicate while preserving order"
RECURSIVE UniqueUrls(_, _)
UniqueUrls(urls, seen) ==
    IF urls = <<>> THEN <<>>
    ELSE IF Head(urls) \notin seen
         THEN <<Head(urls)>> \o UniqueUrls(Tail(urls), seen \cup {Head(urls)})
         ELSE UniqueUrls(Tail(urls), seen)

\* extract_repos_from_site with the order-preserving deduplication left out
extract_repos_keeping_duplicates(yml) ==
    IF yml.state # "ok" THEN <<>> ELSE CollectUrls(yml.sources)

extract_repos_from_site(yml) ==
    IF yml.state # "ok" THEN <<>> ELSE UniqueUrls(CollectUrls(yml.sources), {})

\* parts = url.rstrip("/").replace(".git", "").split("/")
\* name = f"{parts[-2]}_{parts[-1]}" if len(parts) >= 2 else parts[-1]
LocalName(url) ==
    LET parts == Split(Replace(RStrip(url, "/"), DOTGIT, EMPTY), "/")
        n == Len(parts)
    IN IF n >= 2 THEN parts[n - 1] \o <<"_">> \o parts[n] ELSE parts[n]

\* if repo_dir.exists(): git pull, else: git clone
GitCommand(existing, url) == IF LocalName(url) \in existing THEN "pull" ELSE "clone"

\* CloneOne recording a checkout whose refresh failed as failed
CloneOneDroppingStaleCheckout(st, url, ok) ==
    LET name == LocalName(url) IN
    IF ok
    THEN [st EXCEPT !.cloned = Append(@, name), !.cloned_urls = Append(@, url),
                    !.dirs = @ \cup {name}]
    ELSE [st EXCEPT !.failed = Append(@, name)]

\* One iteration of the for loop of clone_repos; ok is the exit status of the
\* git command it runs (pull when the directory exists, clone otherwise).
CloneOne(st, url, ok) ==
    LET name == LocalName(url) IN
    IF name \in st.dirs
    THEN [st EXCEPT !.cloned = Append(@, name), !.cloned_urls = Append(@, url)]
    ELSE IF ok
         THEN [st EXCEPT !.cloned = Append(@, name), !.cloned_urls = Append(@, url),
                         !.dirs = @ \cup {name}]
         ELSE [st EXCEPT !.failed = Append(@, name)]

\* the whole of clone_repos, oks[i] the exit status of the i-th git command
RECURSIVE CloneLoop(_, _, _)
CloneLoop(st, urls, oks) ==
    IF urls = <<>> THEN st
    ELSE CloneLoop(CloneOne(st, Head(urls), Head(oks)), Tail(urls), Tail(oks))

clone_repos(urls, existing, oks) ==
    CloneLoop([cloned |-> <<>>, cloned_urls |-> <<>>, failed |-> <<>>, dirs |-> existing],
              urls, oks)

NoRc == -1
NoFile == <<>>
NoManifest == "no antora.yml"
NoCheckout == [root |-> NoManifest, subs |-> <<>>]
NoPublic == [exists |-> FALSE, pages |-> <<>>]

IdlePlaybook ==
    /\ repo_dirs = <<>> /\ checkout = NoCheckout /\ repo_pos = 0 /\ sub_pos = 0
    /\ repo_has_antora = FALSE /\ sources = <<>> /\ source_details = <<>>
    /\ seen_components = {} /\ skipped_duplicates = <<>> /\ repos_without_antora = <<>>
    /\ playbook = NoFile /\ discovered = <<>>
IdleExtract ==
    /\ public = NoPublic /\ page_pos = 0 /\ output_dir = <<>> /\ unwritable = {}
    /\ count = 0
    /\ skipped_no_article = 0 /\ parsed = {} /\ written = <<>> /\ run_no = 0
    /\ first_run = <<>>
IdleResolver ==
    /\ site_yml = [state |-> "missing", sources |-> <<>>] /\ repos = <<>> /\ url_pos = 0
    /\ dirs = {} /\ cloned = <<>> /\ cloned_urls = <<>> /\ failed = <<>>
    /\ git_runs = <<>>
IdleMain == rc = NoRc /\ started = <<>>

SiteYmls ==
    {[state |-> "ok", sources |-> s] : s \in SeqsUpTo(SiteUrls, MaxUrls)}
    \cup {[state |-> "missing", sources |-> <<>>], [state |-> "unparsable", sources |-> <<>>]}

\* The resolver alone: any site.yml, any set of checkouts left by an earlier run.
InitResolver ==
    /\ pc = "extract_repos_from_site"
    /\ site_yml \in SiteYmls
    /\ dirs \in SUBSET {LocalName(u) : u \in Range(extract_repos_from_site(site_yml))}
    /\ work_dir \in (IF dirs = {} THEN {"absent", "present"} ELSE {"present"})
    /\ repos = <<>> /\ url_pos = 0
    /\ cloned = <<>> /\ cloned_urls = <<>> /\ failed = <<>> /\ git_runs = <<>>
    /\ IdlePlaybook /\ IdleExtract /\ IdleMain

ExtractRepos ==
    /\ pc = "extract_repos_from_site"
    /\ repos' = extract_repos_from_site(site_yml)
    /\ pc' = "clone_repos"
    /\ UNCHANGED <<site_yml, url_pos, dirs, cloned, cloned_urls, failed, git_runs>>
    /\ UNCHANGED <<playbookVars, extractVars, mainVars>>

\* work_dir.mkdir(parents=True, exist_ok=True); cloned = []; failed = []
CloneBegin ==
    /\ pc = "clone_repos"
    /\ work_dir' = "present"
    /\ cloned' = <<>> /\ cloned_urls' = <<>> /\ failed' = <<>> /\ git_runs' = <<>>
    /\ url_pos' = 1
    /\ pc' = "clone_loop"
    /\ UNCHANGED <<site_yml, repos, dirs, rc, started>>
    /\ UNCHANGED <<playbookVars, extractVars>>

CloneStep ==
    /\ pc = "clone_loop"
    /\ url_pos <= Len(repos)
    /\ \E ok \in BOOLEAN :
         LET st == CloneOne([cloned |-> cloned, cloned_urls |-> cloned_urls,
                             failed |-> failed, dirs |-> dirs], repos[url_pos], ok)
         IN /\ cloned' = st.cloned /\ cloned_urls' = st.cloned_urls
            /\ failed' = st.failed /\ dirs' = st.dirs
            /\ git_runs' = Append(git_runs, [cmd |-> GitCommand(dirs, repos[url_pos]),
                                             ok |-> ok])
    /\ url_pos' = url_pos + 1
    /\ UNCHANGED <<pc, site_yml, repos>>
    /\ UNCHANGED <<playbookVars, extractVars, mainVars>>

CloneReturn ==
    /\ pc = "clone_loop"
    /\ url_pos > Len(repos)
    /\ pc' = "resolved"
    /\ UNCHANGED <<resolverVars, playbookVars, extractVars, mainVars>>

NextResolver == ExtractRepos \/ CloneBegin \/ CloneStep \/ CloneReturn
SpecResolver == InitResolver /\ [][NextResolver]_vars

\* ---- the resolver's claims
RawUrls == site_yml.sources
RecognizedAt == {i \in DOMAIN RawUrls : Recognized(RawUrls[i])}
\* index of the first source entry that normalizes to url
FirstOccurrence(url) ==
    CHOOSE i \in RecognizedAt :
        /\ NormalizeUrl(RawUrls[i]) = url
        /\ \A j \in RecognizedAt : NormalizeUrl(RawUrls[j]) = url => i <= j
\* position of url in repos
PosInRepos(url) == CHOOSE k \in DOMAIN repos : repos[k] = url
\* the last two path segments of a URL of the site descriptor
OrgRepo(url) ==
    LET p == CHOOSE q \in UrlParts : NormalizeUrl(UrlText(q)) = url IN <<p.org, p.repo>>
\* the raw URLs in first-seen order, exact duplicates dropped
RECURSIVE FirstSeen(_)
FirstSeen(s) ==
    IF s = <<>> THEN <<>>
    ELSE LET r == FirstSeen(SubSeq(s, 1, Len(s) - 1))
         IN IF s[Len(s)] \in Range(r) THEN r ELSE Append(r, s[Len(s)])

\* C6 as stated: when the resolver has returned, the checkout list has exactly one
\* entry per unique URL of the site descriptor, in first-occurrence order (read in
\* the claim's favour: only URLs with a recognized scheme count, and a checkout
\* stands for a URL when it was made from that URL with ".git" appended).
C6_OneCheckoutPerUniqueUrl ==
    (pc = "resolved" /\ site_yml.state = "ok") =>
        LET u == FirstSeen(SelectSeq(RawUrls, Recognized)) IN
        /\ Len(cloned) = Len(u)
        /\ \A i \in DOMAIN cloned : cloned_urls[i] = NormalizeUrl(u[i])

\* C6 as amended: unique_urls holds exactly one entry per unique normalized URL
\* with a recognized scheme, in first-occurrence order; the checkout list holds at
\* most one entry per such URL, in the same order, and every URL ends in exactly
\* one of cloned and failed.
C6_OneCheckoutPerNormalizedUrl ==
    (pc \in {"clone_loop", "resolved"} /\ site_yml.state = "ok") =>
        /\ \A i \in RecognizedAt : \E k \in DOMAIN repos : repos[k] = NormalizeUrl(RawUrls[i])
        /\ \A k \in DOMAIN repos : \E i \in RecognizedAt : repos[k] = NormalizeUrl(RawUrls[i])
        /\ \A k, l \in DOMAIN repos :
             k < l => FirstOccurrence(repos[k]) < FirstOccurrence(repos[l])
        /\ Len(cloned_urls) = Len(cloned)
        /\ \A i \in DOMAIN cloned :
             /\ cloned_urls[i] \in Range(repos)
             /\ cloned[i] = LocalName(cloned_urls[i])
        /\ \A i, j \in DOMAIN cloned :
             i < j => PosInRepos(cloned_urls[i]) < PosInRepos(cloned_urls[j])
        /\ Len(cloned) + Len(failed) = url_pos - 1
        /\ pc = "resolved" => Len(cloned) + Len(failed) = Len(repos)

\* a site.yml listing the same URL twice, and another one, resolved into two checkouts
C6_Witness ==
    /\ pc = "resolved"
    /\ \E i, j \in RecognizedAt : i < j /\ RawUrls[i] = RawUrls[j]
    /\ Len(repos) = 2 /\ Len(cloned) = 2

\* C7: when clone_repos has returned, URLs with different (org, repo) pairs have
\* different local directories, and no local path is in the returned list twice.
C7_OneCheckoutPerOrgRepo ==
    pc = "resolved" =>
        /\ \A k, l \in DOMAIN repos :
             OrgRepo(repos[k]) # OrgRepo(repos[l]) => LocalName(repos[k]) # LocalName(repos[l])
        /\ \A i, j \in DOMAIN cloned : i # j => cloned[i] # cloned[j]

\* the checkouts clone_repos must have included after its first n iterations: the
\* local name of every URL whose directory existed (pull, whatever its exit
\* status) or whose clone succeeded, in URL order
Included(k) == git_runs[k].cmd = "pull" \/ git_runs[k].ok
RECURSIVE IncludedNames(_)
IncludedNames(n) ==
    IF n = 0 THEN <<>>
    ELSE IF Included(n) THEN Append(IncludedNames(n - 1), LocalName(repos[n]))
         ELSE IncludedNames(n - 1)
RECURSIVE FailedNames(_)
FailedNames(n) ==
    IF n = 0 THEN <<>>
    ELSE IF Included(n) THEN FailedNames(n - 1)
         ELSE Append(FailedNames(n - 1), LocalName(repos[n]))

\* C11: clone_repos takes the URLs in turn. The iteration on a URL whose local
\* directory exists runs git pull and appends the checkout whether the pull
\* succeeds or fails; the iteration on a URL whose directory does not exist runs
\* git clone and appends the checkout exactly when the clone succeeds, else it
\* appends the name to failed; either way the loop goes on to the next URL. So
\* at every point of the loop, and when the function returns, cloned is the
\* included checkouts in URL order, failed the failed clones in URL order, and
\* at the return every URL has been processed.
C11_FailuresOmitOrKeepAndContinue ==
    /\ [](pc \in {"clone_loop", "resolved"} =>
            /\ Len(git_runs) = url_pos - 1
            /\ cloned = IncludedNames(Len(git_runs))
            /\ cloned_urls = SelectSeq([k \in DOMAIN git_runs |->
                                          IF Included(k) THEN repos[k] ELSE EMPTY],
                                      LAMBDA u : u # EMPTY)
            /\ failed = FailedNames(Len(git_runs))
            /\ pc = "resolved" => Len(git_runs) = Len(repos))
    /\ [][(pc = "clone_loop" /\ url_pos <= Len(repos)) =>
            LET name == LocalName(repos[url_pos])
                run == git_runs'[Len(git_runs')]
            IN /\ pc' = "clone_loop" /\ url_pos' = url_pos + 1
               /\ Len(git_runs') = Len(git_runs) + 1
               /\ run.cmd = (IF name \in dirs THEN "pull" ELSE "clone")
               /\ IF name \in dirs \/ run.ok
                  THEN cloned' = Append(cloned, name) /\ failed' = failed
                  ELSE cloned' = cloned /\ failed' = Append(failed, name)]_vars

\* three URLs: the first one's directory exists and its pull fails, the second
\* one's clone fails, the third one's clone succeeds; the first and the third
\* are returned, in that order
C11_Witness ==
    /\ pc = "resolved"
    /\ Len(repos) = 3
    /\ git_runs = <<[cmd |-> "pull", ok |-> FALSE], [cmd |-> "clone", ok |-> FALSE],
                    [cmd |-> "clone", ok |-> TRUE]>>
    /\ cloned = <<LocalName(repos[1]), LocalName(repos[3])>>
    /\ failed = <<LocalName(repos[2])>>

\* ------------------------------------------------------------------ playbook
\* What an antora.yml can be: missing, unparsable, without a "name" key, or naming
\* a component ("" is a name yaml can give too).
Unparsable == "unparsable antora.yml"
NoNameKey == "antora.yml without name"
NoName == "None"
S1 == <<"s","1">>
S2 == <<"s","2">>
RootMark == <<"(","r","o","o","t",")">>
HEAD == <<"H","E","A","D">>

\* The checkouts a run may meet: root is the antora.yml at the top level, subs the
\* entries repo_dir.iterdir() yields that are directories, in listing order.
RootManifests == {NoManifest, NoNameKey, "core", "extra"}
SubdirListings ==
    { <<>>,
      <<[name |-> S1, manifest |-> "extra"]>>,
      <<[name |-> S1, manifest |-> Unparsable], [name |-> S2, manifest |-> "core"]>>,
      <<[name |-> S1, manifest |-> NoManifest], [name |-> S2, manifest |-> ""]>>,
      <<[name |-> S1, manifest |-> "extra"], [name |-> S2, manifest |-> "extra"]>> }
Checkouts == {[root |-> r, subs |-> s] : r \in RootManifests, s \in SubdirListings}

Digits == <<"1","2","3","4","5","6","7","8","9">>
RepoName(i) == <<"r", Digits[i]>>

\* get_component_name: config.get("name"), None when the file does not parse
get_component_name(manifest) ==
    IF manifest \in {Unparsable, NoNameKey} THEN NoName ELSE manifest

\* Python truthiness of a component name
Truthy(component) == component \notin {NoName, ""}

\* SourceEntry with the start_path line left out
SourceEntryWithoutStartPath(repo, sub) ==
    << <<"url", <<".","/">> \o repo>>, <<"branches", HEAD>> >>

\* the source entry appended to sources, as its lines <<key, value>>
SourceEntry(repo, sub) ==
    IF sub = RootMark
    THEN << <<"url", <<".","/">> \o repo>>, <<"branches", HEAD>> >>
    ELSE << <<"url", <<".","/">> \o repo>>, <<"start_path", sub>>, <<"branches", HEAD>> >>

\* AddComponent with seen_components.add(component) left out
AddComponentWithoutRegistering(st, repo, sub, component) ==
    IF Truthy(component) /\ component \in st.seen_components
    THEN [st EXCEPT !.skipped_duplicates = Append(@, <<repo, sub, component>>)]
    ELSE [st EXCEPT
            !.sources = Append(@, SourceEntry(repo, sub)),
            !.source_details = Append(@, <<repo, sub>>)]

\* AddComponent with both "if component" tests left out: None is a name like any other
AddComponentNoneIsAName(st, repo, sub, component) ==
    IF component \in st.seen_components
    THEN [st EXCEPT !.skipped_duplicates = Append(@, <<repo, sub, component>>)]
    ELSE [st EXCEPT
            !.seen_components = @ \cup {component},
            !.sources = Append(@, SourceEntry(repo, sub)),
            !.source_details = Append(@, <<repo, sub>>)]

\* The body run for one antora.yml found (at the root: sub = RootMark):
\*   if component and component in seen_components: skipped_duplicates.append(...)
\*   else: register the name if any, append to sources and source_details
AddComponent(st, repo, sub, component) ==
    IF Truthy(component) /\ component \in st.seen_components
    THEN [st EXCEPT !.skipped_duplicates = Append(@, <<repo, sub, component>>)]
    ELSE [st EXCEPT
            !.seen_components = IF Truthy(component) THEN @ \cup {component} ELSE @,
            !.sources = Append(@, SourceEntry(repo, sub)),
            !.source_details = Append(@, <<repo, sub>>)]

\* history: the component discovered, whatever is decided about it
Discover(st, repo, sub, component) ==
    [AddComponent(st, repo, sub, component) EXCEPT
        !.discovered = Append(st.discovered, [repo |-> repo, sub |-> sub, name |-> component])]

\* if antora_yml.exists(): ... (the root of a checkout)
WalkRoot(st, repo, content) ==
    IF content.root # NoManifest
    THEN Discover(st, repo, RootMark, get_component_name(content.root))
    ELSE st

\* if subdir.is_dir() and antora_yml.exists(): ... (one entry of iterdir)
WalkSubdir(st, repo, subdir) ==
    IF subdir.manifest # NoManifest
    THEN Discover(st, repo, subdir.name, get_component_name(subdir.manifest))
    ELSE st

RECURSIVE WalkSubdirs(_, _, _)
WalkSubdirs(st, repo, subs) ==
    IF subs = <<>> THEN st
    ELSE WalkSubdirs(WalkSubdir(st, repo, Head(subs)), repo, Tail(subs))

HasAntora(content) ==
    content.root # NoManifest \/ \E i \in DOMAIN content.subs : content.subs[i].manifest # NoManifest

\* if not repo_has_antora: repos_without_antora.append(repo_dir.name)
CloseCheckout(st, repo, has_antora) ==
    IF has_antora THEN st ELSE [st EXCEPT !.repos_without_antora = Append(@, repo)]

\* one iteration of "for repo_dir in repo_dirs"
WalkCheckout(st, repo, content) ==
    CloseCheckout(WalkSubdirs(WalkRoot(st, repo, content), repo, content.subs),
                  repo, HasAntora(content))

RECURSIVE WalkCheckouts(_, _, _)
WalkCheckouts(st, dirs_, contents) ==
    IF dirs_ = <<>> THEN st
    ELSE WalkCheckouts(WalkCheckout(st, Head(dirs_), Head(contents)),
                       Tail(dirs_), Tail(contents))

RECURSIVE Flatten(_)
Flatten(ss) == IF ss = <<>> THEN <<>> ELSE Head(ss) \o Flatten(Tail(ss))

\* the playbook text: the fixed fields and chr(10).join(sources)
PlaybookText(srcs) ==
    [title |-> "Fedora Documentation", start_page |-> "quick-docs::index.adoc",
     source_lines |-> Flatten(srcs),
     output_clean |-> TRUE, output_dir |-> "./public", fetch |-> TRUE]

\* if not sources: return False; else write site.yml and return True
FinishPlaybook(srcs) ==
    IF srcs = <<>> THEN [ok |-> FALSE, playbook |-> NoFile]
    ELSE [ok |-> TRUE, playbook |-> <<PlaybookText(srcs)>>]

EmptyWalk ==
    [sources |-> <<>>, source_details |-> <<>>, seen_components |-> {},
     skipped_duplicates |-> <<>>, repos_without_antora |-> <<>>, discovered |-> <<>>]

\* the whole of create_antora_playbook; contents[i] is what repo_dirs[i] holds
create_antora_playbook(dirs_, contents) ==
    LET st == WalkCheckouts(EmptyWalk, dirs_, contents)
        fin == FinishPlaybook(st.sources)
    IN [ok |-> fin.ok, playbook |-> fin.playbook, walk |-> st]

Walk ==
    [sources |-> sources, source_details |-> source_details,
     seen_components |-> seen_components, skipped_duplicates |-> skipped_duplicates,
     repos_without_antora |-> repos_without_antora, discovered |-> discovered]
SetWalk(st) ==
    /\ sources' = st.sources /\ source_details' = st.source_details
    /\ seen_components' = st.seen_components
    /\ skipped_duplicates' = st.skipped_duplicates
    /\ repos_without_antora' = st.repos_without_antora
    /\ discovered' = st.discovered

\* create_antora_playbook alone, on any list of distinct checkouts
InitPlaybook ==
    /\ pc = "create_antora_playbook"
    /\ \E n \in 0..MaxRepos : repo_dirs = [i \in 1..n |-> RepoName(i)]
    /\ checkout = NoCheckout /\ repo_pos = 0 /\ sub_pos = 0 /\ repo_has_antora = FALSE
    /\ sources = <<>> /\ source_details = <<>> /\ seen_components = {}
    /\ skipped_duplicates = <<>> /\ repos_without_antora = <<>>
    /\ playbook = NoFile /\ discovered = <<>>
    /\ work_dir = "present"
    /\ IdleResolver /\ IdleExtract /\ IdleMain

\* for repo_dir in repo_dirs: repo_has_antora = False (the checkout is read here)
RepoBegin ==
    /\ pc = "create_antora_playbook"
    /\ repo_pos < Len(repo_dirs)
    /\ repo_pos' = repo_pos + 1
    /\ checkout' \in Checkouts
    /\ repo_has_antora' = FALSE
    /\ pc' = "root"
    /\ UNCHANGED <<repo_dirs, sub_pos, sources, source_details, seen_components,
                   skipped_duplicates, repos_without_antora, playbook, discovered>>
    /\ UNCHANGED <<resolverVars, extractVars, mainVars>>

RootStep ==
    /\ pc = "root"
    /\ SetWalk(WalkRoot(Walk, repo_dirs[repo_pos], checkout))
    /\ repo_has_antora' = (checkout.root # NoManifest)
    /\ sub_pos' = 1
    /\ pc' = "subdirs"
    /\ UNCHANGED <<repo_dirs, checkout, repo_pos, playbook>>
    /\ UNCHANGED <<resolverVars, extractVars, mainVars>>

SubdirStep ==
    /\ pc = "subdirs"
    /\ sub_pos <= Len(checkout.subs)
    /\ SetWalk(WalkSubdir(Walk, repo_dirs[repo_pos], checkout.subs[sub_pos]))
    /\ repo_has_antora' = (repo_has_antora \/ checkout.subs[sub_pos].manifest # NoManifest)
    /\ sub_pos' = sub_pos + 1
    /\ UNCHANGED <<pc, repo_dirs, checkout, repo_pos, playbook>>
    /\ UNCHANGED <<resolverVars, extractVars, mainVars>>

RepoEnd ==
    /\ pc = "subdirs"
    /\ sub_pos > Len(checkout.subs)
    /\ SetWalk(CloseCheckout(Walk, repo_dirs[repo_pos], repo_has_antora))
    /\ pc' = "create_antora_playbook"
    /\ UNCHANGED <<repo_dirs, checkout, repo_pos, sub_pos, repo_has_antora, playbook>>
    /\ UNCHANGED <<resolverVars, extractVars, mainVars>>

PlaybookReturn ==
    /\ pc = "create_antora_playbook"
    /\ repo_pos = Len(repo_dirs)
    /\ playbook' = FinishPlaybook(sources).playbook
    /\ pc' = IF FinishPlaybook(sources).ok THEN "playbook_written" ELSE "playbook_failed"
    /\ UNCHANGED <<repo_dirs, checkout, repo_pos, sub_pos, repo_has_antora, sources,
                   source_details, seen_components, skipped_duplicates,
                   repos_without_antora, discovered>>
    /\ UNCHANGED <<resolverVars, extractVars, mainVars>>

NextPlaybook == RepoBegin \/ RootStep \/ SubdirStep \/ RepoEnd \/ PlaybookReturn
SpecPlaybook == InitPlaybook /\ [][NextPlaybook]_vars

\* ---- the deduplicator's and the synthesizer's claims
Location(d) == <<d.repo, d.sub>>
Accepted(i) == Location(discovered[i]) \in Range(source_details)
Skipped(i) ==
    <<discovered[i].repo, discovered[i].sub, discovered[i].name>> \in Range(skipped_duplicates)
FirstOfItsName(i) == \A j \in 1..(i - 1) : discovered[j].name # discovered[i].name
RepoIndex(d) == CHOOSE k \in DOMAIN repo_dirs : repo_dirs[k] = d.repo

\* C1: of the components declaring one non-empty name, exactly the first
\* discovered (checkouts in list order, root before subdirectories) is accepted,
\* every later one is a skipped duplicate, and no two accepted components share a
\* non-empty name.
C1_FirstDiscoveredWins ==
    LET accepted == {i \in DOMAIN discovered : Accepted(i)}
        skipped == {i \in DOMAIN discovered : Skipped(i)}
        repo_of == [i \in DOMAIN discovered |-> RepoIndex(discovered[i])]
    IN
    /\ \A i \in DOMAIN discovered :
         Truthy(discovered[i].name) =>
            /\ FirstOfItsName(i) => (i \in accepted /\ i \notin skipped)
            /\ ~FirstOfItsName(i) => (i \in skipped /\ i \notin accepted)
    /\ \A i, j \in accepted :
         (i # j /\ Truthy(discovered[i].name)) => discovered[i].name # discovered[j].name
    /\ \A i, j \in DOMAIN discovered :
         i < j => \/ repo_of[i] < repo_of[j]
                  \/ repo_of[i] = repo_of[j] /\ discovered[j].sub # RootMark

\* two checkouts declare the same name: the first is accepted, the second skipped
C1_Witness ==
    /\ pc = "playbook_written"
    /\ \E i, j \in DOMAIN discovered :
         /\ i < j /\ discovered[i].repo # discovered[j].repo
         /\ Truthy(discovered[i].name) /\ discovered[i].name = discovered[j].name
         /\ Accepted(i) /\ Skipped(j)

Unnamed(i) == discovered[i].name = NoName

\* C2: a component whose manifest declares no name is accepted and never
\* recorded as a skipped duplicate, whatever was discovered before it, and
\* accepting it leaves the name registry unchanged.
C2_UnnamedAlwaysAccepted ==
    /\ [](\A i \in DOMAIN discovered : Unnamed(i) => (Accepted(i) /\ ~Skipped(i)))
    /\ [][(/\ Len(discovered') = Len(discovered) + 1
           /\ discovered'[Len(discovered')].name = NoName)
          => /\ seen_components' = seen_components
             /\ Len(source_details') = Len(source_details) + 1
             /\ skipped_duplicates' = skipped_duplicates]_vars

\* three unnamed components, in two checkouts, all accepted
C2_Witness ==
    /\ pc = "playbook_written"
    /\ \E i, j, k \in DOMAIN discovered :
         /\ i < j /\ j < k /\ Unnamed(i) /\ Unnamed(j) /\ Unnamed(k)
         /\ discovered[i].repo # discovered[k].repo
         /\ Accepted(i) /\ Accepted(j) /\ Accepted(k)

\* the source list a reader of the playbook sees: a "url" line opens an entry
NoStartPath == <<>>
RECURSIVE ParseSources(_)
ParseSources(lines) ==
    IF lines = <<>> THEN <<>>
    ELSE LET r == ParseSources(SubSeq(lines, 1, Len(lines) - 1))
             l == lines[Len(lines)]
         IN IF l[1] = "url" THEN Append(r, [url |-> l[2], start_path |-> NoStartPath])
            ELSE IF l[1] = "start_path" THEN [r EXCEPT ![Len(r)].start_path = l[2]]
            ELSE r

\* the locations the deduplicator accepts: unnamed, or first of their name
RECURSIVE AcceptedLocations(_)
AcceptedLocations(n) ==
    IF n = 0 THEN <<>>
    ELSE IF ~Truthy(discovered[n].name) \/ FirstOfItsName(n)
         THEN Append(AcceptedLocations(n - 1), Location(discovered[n]))
         ELSE AcceptedLocations(n - 1)

\* C3: the source list of the written playbook matches the accepted component
\* list entry by entry: same length, same order, the checkout's path, and a
\* start_path exactly for subdirectory components; no skipped duplicate and no
\* checkout without manifest is in it.
C3_PlaybookMatchesAccepted ==
    pc = "playbook_written" =>
        LET entries == ParseSources(playbook[1].source_lines)
            accepted == AcceptedLocations(Len(discovered))
        IN /\ source_details = accepted
           /\ Len(entries) = Len(accepted)
           /\ \A i \in DOMAIN entries :
                /\ entries[i].url = <<".","/">> \o accepted[i][1]
                /\ entries[i].start_path =
                     (IF accepted[i][2] = RootMark THEN NoStartPath ELSE accepted[i][2])
           /\ \A k \in DOMAIN skipped_duplicates : \A i \in DOMAIN entries :
                ~(/\ entries[i].url = <<".","/">> \o skipped_duplicates[k][1]
                  /\ entries[i].start_path =
                       (IF skipped_duplicates[k][2] = RootMark THEN NoStartPath
                        ELSE skipped_duplicates[k][2]))
           /\ \A k \in DOMAIN repos_without_antora : \A i \in DOMAIN entries :
                entries[i].url # <<".","/">> \o repos_without_antora[k]

\* a playbook with a root entry and a subdirectory entry, written after a
\* duplicate was skipped and a checkout without manifest was passed over
C3_Witness ==
    /\ pc = "playbook_written"
    /\ \E i, j \in DOMAIN source_details :
         source_details[i][2] = RootMark /\ source_details[j][2] # RootMark
    /\ skipped_duplicates # <<>>
    /\ repos_without_antora # <<>>
    /\ Len(ParseSources(playbook[1].source_lines)) = Len(source_details)

\* ------------------------------------------------------------------ extractor
INDEX_HTML == <<"i","n","d","e","x">> \o DOTHTML
X_HTML == <<"x">> \o DOTHTML
NOT_FOUND_HTML == <<"4","0","4">> \o DOTHTML
SITEMAP_HTML == <<"s","i","t","e","m","a","p">> \o DOTHTML
SEARCH_HTML == <<"s","e","a","r","c","h">> \o DOTHTML
DOTMETAJSON == <<".","m","e","t","a",".","j","s","o","n">>
BASE_URL == <<"https://docs.fedoraproject.org/">>
FEDORA_LICENSE == <<"CC-BY-SA 4.0">>

\* The pages an output tree may hold: the path relative to public_dir, as its parts.
PagePaths ==
    { << <<"a">>, <<"b">>, INDEX_HTML >>,
      << A_B, INDEX_HTML >>,
      << X_HTML >>,
      << NOT_FOUND_HTML >> }

\* What a page may hold: whether it can be read, the text of its title element
\* (<<>>: no title element), and its article elements in document order, each
\* with its class and the tags of its descendants.
NoTitle == <<>>
PageHtmls ==
    { [readable |-> TRUE, title |-> << <<"T">> >>,
       articles |-> << [class |-> "", body |-> <<"p">>],
                       [class |-> "doc", body |-> <<"p","nav","script","h2","aside">>] >>],
      [readable |-> TRUE, title |-> NoTitle,
       articles |-> << [class |-> "", body |-> <<"aside","p">>] >>],
      [readable |-> TRUE, title |-> << <<"T">> >>, articles |-> <<>>],
      [readable |-> FALSE, title |-> NoTitle, articles |-> <<>>] }

FileName(path) == path[Len(path)]

\* html_file.name in ("404.html", "sitemap.html", "search.html")
Excluded(path) == FileName(path) \in {NOT_FOUND_HTML, SITEMAP_HTML, SEARCH_HTML}

\* Path.stem: the name without its last suffix
Stem(name) ==
    LET dots == {i \in 2..Len(name) : name[i] = "."}
    IN IF dots = {} THEN name
       ELSE SubSeq(name, 1, (CHOOSE i \in dots : \A j \in dots : j <= i) - 1)

\* soup.find("article", class_="doc"), then soup.find("article"); <<>> when neither
FindArticle(html) ==
    LET docs == {i \in DOMAIN html.articles : html.articles[i].class = "doc"}
    IN IF docs # {} THEN <<html.articles[CHOOSE i \in docs : \A j \in docs : i <= j]>>
       ELSE IF html.articles # <<>> THEN <<html.articles[1]>>
       ELSE <<>>

IsContent(tag) == tag \notin {"aside", "nav", "script"}
\* for elem in article.find_all(["aside", "nav", "script"]): elem.decompose()
Sanitize(article) == [article EXCEPT !.body = SelectSeq(@, IsContent)]

\* title_elem.get_text(strip=True) if title_elem else html_file.stem
Title(html, path) == IF html.title # NoTitle THEN html.title[1] ELSE Stem(FileName(path))

\* str(rel_path)
RelPath(path) == Join(path, <<"/">>)
\* out_name = str(rel_path).replace("/", "_")
OutName(path) == Replace(RelPath(path), <<"/">>, <<"_">>)
MetaName(out_name) == out_name \o DOTMETAJSON

\* the two files written for a page, each as its fields
HtmlFile(title, article) == << <<"html">>, title, <<article.class>>, article.body >>
MetaFile(title, path) == << <<"meta">>, title, BASE_URL \o RelPath(path), FEDORA_LICENSE >>

\* whether Path.write_text can create the file of that name in the destination
CanWrite(name) == name \notin unwritable
\* Path.write_text: create or overwrite
WriteText(dir, name, content) == (name :> content) @@ dir

\* ClearPrevious that leaves the loops after the first unlink
ClearOnlyFirstMatch(dir) ==
    LET html == {n \in DOMAIN dir : EndsWith(n, DOTHTML)}
        one == IF html = {} THEN {} ELSE {CHOOSE n \in html : TRUE}
        meta == {n \in DOMAIN dir : EndsWith(n, DOTMETAJSON)}
        two == IF meta = {} THEN {} ELSE {CHOOSE n \in meta : TRUE}
    IN [n \in DOMAIN dir \ (one \cup two) |-> dir[n]]

\* "Clear previous content": unlink output_dir.glob("*.html") and "*.meta.json"
ClearPrevious(dir) ==
    [n \in {m \in DOMAIN dir : ~EndsWith(m, DOTHTML) /\ ~EndsWith(m, DOTMETAJSON)} |-> dir[n]]

\* ExtractOne counting a page without article as extracted
ExtractOneCountingEveryPage(st, i, page) ==
    IF Excluded(page.path) THEN st
    ELSE IF ~page.html.readable THEN st
    ELSE IF FindArticle(page.html) = <<>>
         THEN [st EXCEPT !.parsed = @ \cup {i}, !.count = @ + 1]
         ELSE LET article == Sanitize(FindArticle(page.html)[1])
                  title == Title(page.html, page.path)
                  out_name == OutName(page.path)
              IN IF ~CanWrite(out_name)
                 THEN [st EXCEPT !.parsed = @ \cup {i}]
                 ELSE IF ~CanWrite(MetaName(out_name))
                 THEN [st EXCEPT
                         !.parsed = @ \cup {i},
                         !.output_dir = WriteText(@, out_name, HtmlFile(title, article))]
                 ELSE [st EXCEPT
                         !.parsed = @ \cup {i},
                         !.output_dir =
                             WriteText(WriteText(@, out_name, HtmlFile(title, article)),
                                       MetaName(out_name), MetaFile(title, page.path)),
                         !.written = Append(@, <<i, out_name>>),
                         !.count = @ + 1]

\* One iteration of "for html_file in public_dir.rglob('*.html')" on the i-th
\* page. A page that cannot be read raises in read_text: the except clause
\* prints a warning and the loop goes on, and so it does when one of the two
\* write_text calls raises: out_path.write_text before anything is written,
\* meta_path.write_text with the content file already written. component_counts
\* feeds the printed summary only and is left out.
ExtractOne(st, i, page) ==
    IF Excluded(page.path) THEN st
    ELSE IF ~page.html.readable THEN st
    ELSE IF FindArticle(page.html) = <<>>
         THEN [st EXCEPT !.parsed = @ \cup {i}, !.skipped_no_article = @ + 1]
         ELSE LET article == Sanitize(FindArticle(page.html)[1])
                  title == Title(page.html, page.path)
                  out_name == OutName(page.path)
              IN IF ~CanWrite(out_name)
                 THEN [st EXCEPT !.parsed = @ \cup {i}]
                 ELSE IF ~CanWrite(MetaName(out_name))
                 THEN [st EXCEPT
                         !.parsed = @ \cup {i},
                         !.output_dir = WriteText(@, out_name, HtmlFile(title, article))]
                 ELSE [st EXCEPT
                         !.parsed = @ \cup {i},
                         !.output_dir =
                             WriteText(WriteText(@, out_name, HtmlFile(title, article)),
                                       MetaName(out_name), MetaFile(title, page.path)),
                         !.written = Append(@, <<i, out_name>>),
                         !.count = @ + 1]

RECURSIVE ExtractLoop(_, _, _)
ExtractLoop(st, pages, i) ==
    IF i > Len(pages) THEN st ELSE ExtractLoop(ExtractOne(st, i, pages[i]), pages, i + 1)

\* output_dir.mkdir(...); clear previous content; count = 0; skipped_no_article = 0
ExtractStart(dir) ==
    [output_dir |-> ClearPrevious(dir), count |-> 0, skipped_no_article |-> 0,
     parsed |-> {}, written |-> <<>>]

\* the whole of extract_html_content: the destination afterwards and the count
extract_html_content(pub, dir) ==
    IF ~pub.exists
    THEN [output_dir |-> dir, count |-> 0, skipped_no_article |-> 0,
          parsed |-> {}, written |-> <<>>]
    ELSE ExtractLoop(ExtractStart(dir), pub.pages, 1)

Extraction ==
    [output_dir |-> output_dir, count |-> count, skipped_no_article |-> skipped_no_article,
     parsed |-> parsed, written |-> written]
SetExtraction(st) ==
    /\ output_dir' = st.output_dir /\ count' = st.count
    /\ skipped_no_article' = st.skipped_no_article
    /\ parsed' = st.parsed /\ written' = st.written

\* what an earlier run may have left in the destination
STALE_HTML == << <<"html">>, <<"old">>, <<"doc">>, <<"p">> >>
STALE_META == << <<"meta">>, <<"old">>, BASE_URL \o <<"old">>, FEDORA_LICENSE >>
OLD_HTML == <<"o","l","d">> \o DOTHTML
NOTES_TXT == <<"n","o","t","e","s",".","t","x","t">>
Destinations ==
    { <<>>,
      (OLD_HTML :> STALE_HTML) @@ (MetaName(OLD_HTML) :> STALE_META)
         @@ (OutName(<< A_B, INDEX_HTML >>) :> STALE_HTML) @@ (NOTES_TXT :> <<>>),
      (OutName(<< X_HTML >>) :> STALE_HTML) }

\* The names the destination's filesystem may refuse to create (a name beyond
\* its length limit or with a character it does not allow): none, the sidecar
\* of x.html, the content file of a/b/index.html.
WriteFaults ==
    { {}, {MetaName(OutName(<< X_HTML >>))}, {OutName(<< <<"a">>, <<"b">>, INDEX_HTML >>)} }

IsInjective(f) == \A i, j \in DOMAIN f : i # j => f[i] # f[j]
Trees ==
    {[exists |-> TRUE, pages |-> [i \in 1..n |-> [path |-> ps[i], html |-> hs[i]]]] :
        <<n, ps, hs>> \in
            UNION {{<<k, p, h>> : p \in {q \in [1..k -> PagePaths] : IsInjective(q)},
                                  h \in [1..k -> PageHtmls]} : k \in 0..MaxPages}}
    \cup {NoPublic}

\* extract_html_content alone, called twice on an unchanged output tree: the
\* same pages, yielded by rglob in the same order, the same ones unreadable
InitExtract ==
    /\ pc = "extract_html_content"
    /\ public \in Trees
    /\ output_dir \in Destinations
    /\ unwritable \in {w \in WriteFaults : w \cap DOMAIN output_dir = {}}
    /\ page_pos = 0 /\ count = 0 /\ skipped_no_article = 0
    /\ parsed = {} /\ written = <<>>
    /\ run_no = 1 /\ first_run = <<>>
    /\ work_dir = "present"
    /\ IdleResolver /\ IdlePlaybook /\ IdleMain

\* if not public_dir.exists(): return 0
ExtractNoPublic ==
    /\ pc = "extract_html_content"
    /\ ~public.exists
    /\ SetExtraction(extract_html_content(public, output_dir))
    /\ pc' = "extract_return"
    /\ UNCHANGED <<public, page_pos, unwritable, run_no, first_run>>
    /\ UNCHANGED <<resolverVars, playbookVars, mainVars>>

ExtractBegin ==
    /\ pc = "extract_html_content"
    /\ public.exists
    /\ SetExtraction(ExtractStart(output_dir))
    /\ page_pos' = 1
    /\ pc' = "extract_loop"
    /\ UNCHANGED <<public, unwritable, run_no, first_run>>
    /\ UNCHANGED <<resolverVars, playbookVars, mainVars>>

\* ExtractStep leaving the loop at the first page whose processing raises
ExtractStepStoppingAtFailure ==
    /\ pc = "extract_loop"
    /\ page_pos <= Len(public.pages)
    /\ LET page == public.pages[page_pos]
           st == ExtractOne(Extraction, page_pos, page)
           raised == /\ ~Excluded(page.path)
                     /\ st.count = count
                     /\ st.skipped_no_article = skipped_no_article
       IN /\ SetExtraction(st)
          /\ pc' = IF raised THEN "extract_return" ELSE pc
    /\ page_pos' = page_pos + 1
    /\ UNCHANGED <<public, unwritable, run_no, first_run>>
    /\ UNCHANGED <<resolverVars, playbookVars, mainVars>>

ExtractStep ==
    /\ pc = "extract_loop"
    /\ page_pos <= Len(public.pages)
    /\ SetExtraction(ExtractOne(Extraction, page_pos, public.pages[page_pos]))
    /\ page_pos' = page_pos + 1
    /\ UNCHANGED <<pc, public, unwritable, run_no, first_run>>
    /\ UNCHANGED <<resolverVars, playbookVars, mainVars>>

ExtractLoopEnd ==
    /\ pc = "extract_loop"
    /\ page_pos > Len(public.pages)
    /\ pc' = "extract_return"
    /\ UNCHANGED <<extractVars, resolverVars, playbookVars, mainVars>>

\* return count; the caller then calls again on the unchanged tree
ExtractReturn ==
    /\ pc = "extract_return"
    /\ \/ /\ run_no = 1
          /\ first_run' = <<[output_dir |-> output_dir, count |-> count]>>
          /\ run_no' = 2
          /\ pc' = "extract_html_content"
       \/ /\ run_no = 2
          /\ pc' = "extracted_twice"
          /\ UNCHANGED <<first_run, run_no>>
    /\ UNCHANGED <<public, page_pos, output_dir, unwritable, count, skipped_no_article,
                   parsed, written>>
    /\ UNCHANGED <<resolverVars, playbookVars, mainVars>>

NextExtract == ExtractNoPublic \/ ExtractBegin \/ ExtractStep \/ ExtractLoopEnd \/ ExtractReturn
SpecExtract == InitExtract /\ [][NextExtract]_vars

\* ---- the extractor's claims
PageAt(i) == public.pages[i]

\* C4: pages with different relative paths get different output file names, and
\* so when the call returns every page written still has its own content file
\* and sidecar file.
C4_OutNamesInjective ==
    /\ \A i, j \in DOMAIN written :
         PageAt(written[i][1]).path # PageAt(written[j][1]).path => written[i][2] # written[j][2]
    /\ pc = "extract_return" =>
         \A i \in DOMAIN written :
            LET page == PageAt(written[i][1]) IN
            /\ output_dir[written[i][2]][2] = Title(page.html, page.path)
            /\ output_dir[MetaName(written[i][2])] =
                 MetaFile(Title(page.html, page.path), page.path)

\* C8: a second call on the unchanged tree leaves the destination with the same
\* files with the same contents as the first call did, and returns the same count.
C8_ExtractIdempotent ==
    pc = "extracted_twice" =>
        /\ output_dir = first_run[1].output_dir
        /\ count = first_run[1].count

\* two calls on a tree with two qualifying pages, over a destination that held
\* stale content and sidecar files
C8_Witness ==
    /\ pc = "extracted_twice"
    /\ count = 2
    /\ NOTES_TXT \in DOMAIN output_dir
    /\ OLD_HTML \notin DOMAIN output_dir
    /\ Cardinality(DOMAIN output_dir) = 5

HasNoArticle(page) == page.html.readable /\ page.html.articles = <<>>

\* C10: the iteration on a non-excluded page without any article container
\* writes no file, adds one to skipped_no_article and nothing to count; the
\* iteration on an excluded page parses nothing and changes neither counter.
C10_NoArticleSkipped ==
    [][(pc = "extract_loop" /\ page_pos' = page_pos + 1) =>
        /\ (~Excluded(PageAt(page_pos).path) /\ HasNoArticle(PageAt(page_pos))) =>
              /\ output_dir' = output_dir
              /\ skipped_no_article' = skipped_no_article + 1
              /\ count' = count
        /\ Excluded(PageAt(page_pos).path) =>
              /\ parsed' = parsed
              /\ output_dir' = output_dir
              /\ skipped_no_article' = skipped_no_article
              /\ count' = count]_vars

\* x.html with an article, a page without article and 404.html: one page
\* extracted, one skipped, 404.html never parsed
C10_Witness ==
    /\ pc = "extract_return"
    /\ Len(public.pages) = 3
    /\ \E i, j, k \in DOMAIN public.pages :
         /\ Excluded(PageAt(i).path) /\ i \notin parsed
         /\ ~Excluded(PageAt(j).path) /\ HasNoArticle(PageAt(j)) /\ j \in parsed
         /\ PageAt(k).path = << X_HTML >> /\ k \in parsed
    /\ count = 1 /\ skipped_no_article = 1
    /\ Cardinality(DOMAIN ClearPrevious(output_dir)) + 2 = Cardinality(DOMAIN output_dir)

\* a qualifying page: not excluded, and with an article container if it can be read
Qualifying(page) ==
    /\ ~Excluded(page.path)
    /\ page.html.readable => page.html.articles # <<>>
\* a page whose processing raises: read_text, or one of the two write_text calls
Raises(page) ==
    /\ Qualifying(page)
    /\ \/ ~page.html.readable
       \/ OutName(page.path) \in unwritable
       \/ MetaName(OutName(page.path)) \in unwritable
WrittenPages == {written[k][1] : k \in DOMAIN written}

\* C12: a page whose processing raises does not end the loop. The iteration on
\* it leaves count alone and goes on to the next page, and when the call
\* returns every page of the tree has been taken, every qualifying page that
\* did not raise has been written with its content file and its sidecar, no
\* page that raised has been, and count is the number of pages written.
C12_PageFailureDoesNotAbort ==
    /\ [](pc = "extract_return" /\ public.exists =>
            /\ page_pos = Len(public.pages) + 1
            /\ \A i \in DOMAIN public.pages :
                 IF Qualifying(PageAt(i)) /\ ~Raises(PageAt(i))
                 THEN /\ i \in WrittenPages
                      /\ OutName(PageAt(i).path) \in DOMAIN output_dir
                      /\ MetaName(OutName(PageAt(i).path)) \in DOMAIN output_dir
                 ELSE i \notin WrittenPages
            /\ count = Cardinality(WrittenPages)
            /\ count = Len(written))
    /\ [][(pc = "extract_loop" /\ page_pos <= Len(public.pages)
                               /\ Raises(PageAt(page_pos))) =>
            /\ pc' = "extract_loop" /\ page_pos' = page_pos + 1
            /\ count' = count /\ written' = written]_vars

\* three pages: one that cannot be read, then x.html whose sidecar cannot be
\* written, then a page that is extracted as if nothing had happened
C12_Witness ==
    /\ pc = "extract_return"
    /\ Len(public.pages) = 3
    /\ ~PageAt(1).html.readable /\ Qualifying(PageAt(1))
    /\ PageAt(2).path = << X_HTML >> /\ PageAt(2).html.readable /\ Raises(PageAt(2))
    /\ Qualifying(PageAt(3)) /\ ~Raises(PageAt(3))
    /\ WrittenPages = {3} /\ count = 1
    /\ OutName(PageAt(3).path) \in DOMAIN output_dir

\* the content files and the sidecars the destination holds
ContentFiles == {n \in DOMAIN output_dir : EndsWith(n, DOTHTML)}
Sidecars == {n \in DOMAIN output_dir : EndsWith(n, DOTMETAJSON)}

\* C13: when a call that found the output tree returns, every content file of
\* the destination has its sidecar, every sidecar its content file, and count
\* is the number of these pairs.
C13_CompletePairsOnly ==
    (pc = "extract_return" /\ public.exists) =>
        /\ \A n \in ContentFiles : MetaName(n) \in Sidecars
        /\ \A m \in Sidecars : \E n \in ContentFiles : m = MetaName(n)
        /\ count = Cardinality(ContentFiles)

\* ------------------------------------------------------------------ main
\* What a run of main may meet, stage by stage.
URL_AB_C == UrlText([scheme |-> HTTPS, org |-> A_B, repo |-> <<"c">>, suffix |-> DOTGIT])
URL_A_BC == UrlText([scheme |-> HTTPS, org |-> <<"a">>, repo |-> B_C, suffix |-> DOTGIT])
URL_A_C == UrlText([scheme |-> HTTPS, org |-> <<"a">>, repo |-> <<"c">>, suffix |-> EMPTY])
MainSiteYmls ==
    { [state |-> "missing", sources |-> <<>>],
      [state |-> "ok", sources |-> <<>>],
      [state |-> "ok", sources |-> <<URL_A_C>>],
      [state |-> "ok", sources |-> <<URL_AB_C, URL_A_C, URL_AB_C>>],
      [state |-> "ok", sources |-> <<URL_AB_C, URL_A_BC>>] }
MainCheckouts ==
    { NoCheckout,
      [root |-> "core", subs |-> <<>>],
      [root |-> NoManifest, subs |-> <<[name |-> S1, manifest |-> "core"]>>] }
DOC_PAGE == CHOOSE h \in PageHtmls : h.readable /\ Len(h.articles) = 2
BARE_PAGE == CHOOSE h \in PageHtmls : h.readable /\ h.articles = <<>>
MainTrees ==
    { NoPublic,
      [exists |-> TRUE, pages |-> <<>>],
      [exists |-> TRUE, pages |-> << [path |-> << X_HTML >>, html |-> DOC_PAGE] >>],
      [exists |-> TRUE, pages |-> << [path |-> << X_HTML >>, html |-> BARE_PAGE],
                                     [path |-> << NOT_FOUND_HTML >>, html |-> DOC_PAGE] >>] }

InitMain ==
    /\ pc = "check_prerequisites"
    /\ rc = NoRc /\ started = <<>>
    /\ work_dir \in {"absent", "present"}
    /\ output_dir \in Destinations
    /\ unwritable \in {w \in WriteFaults : w \cap DOMAIN output_dir = {}}
    /\ public = NoPublic /\ page_pos = 0 /\ count = 0 /\ skipped_no_article = 0
    /\ parsed = {} /\ written = <<>> /\ run_no = 0 /\ first_run = <<>>
    /\ IdleResolver /\ IdlePlaybook

\* a stage starts: it is logged
Start(stage) == started' = Append(started, stage)
\* return 1
Return(code) == pc' = "done" /\ rc' = code
\* on to the next stage
Goto(stage) == pc' = stage /\ rc' = rc

\* container_cmd, missing = check_prerequisites(); if missing: return 1
MainPrerequisites ==
    /\ pc = "check_prerequisites"
    /\ Start("check_prerequisites")
    /\ \E missing \in BOOLEAN : IF missing THEN Return(1) ELSE Goto("clone_site_repo")
    /\ UNCHANGED <<work_dir, resolverVars, playbookVars, extractVars>>

\* Step 1: site_dir = clone_site_repo(WORK_DIR); if not site_dir: return 1
MainSiteRepo ==
    /\ pc = "clone_site_repo"
    /\ Start("clone_site_repo")
    /\ \E ok \in BOOLEAN :
         IF ok THEN Goto("clone_repos") /\ work_dir' = "present"
         ELSE Return(1) /\ UNCHANGED work_dir
    /\ UNCHANGED <<resolverVars, playbookVars, extractVars>>

\* Step 2: repos = extract_repos_from_site(site_dir);
\* repo_dirs = clone_repos(repos, WORK_DIR); if not repo_dirs: return 1
MainClone ==
    /\ pc = "clone_repos"
    /\ Start("clone_repos")
    /\ \E yml \in MainSiteYmls :
         LET urls == extract_repos_from_site(yml) IN
         \E existing \in SUBSET {LocalName(u) : u \in Range(urls)},
            oks \in [1..Len(urls) -> BOOLEAN] :
              /\ repo_dirs' = clone_repos(urls, existing, oks).cloned
              /\ IF repo_dirs' = <<>> THEN Return(1) ELSE Goto("create_antora_playbook")
    /\ work_dir' = "present"
    /\ UNCHANGED <<checkout, repo_pos, sub_pos, repo_has_antora, sources, source_details,
                   seen_components, skipped_duplicates, repos_without_antora, playbook,
                   discovered>>
    /\ UNCHANGED <<resolverVars, extractVars>>

\* Step 3: if not create_antora_playbook(WORK_DIR, repo_dirs): return 1
MainPlaybook ==
    /\ pc = "create_antora_playbook"
    /\ Start("create_antora_playbook")
    /\ \E contents \in [DOMAIN repo_dirs -> MainCheckouts] :
         /\ \A i, j \in DOMAIN repo_dirs : repo_dirs[i] = repo_dirs[j] => contents[i] = contents[j]
         /\ LET r == create_antora_playbook(repo_dirs, contents) IN
              /\ SetWalk(r.walk)
              /\ playbook' = r.playbook
              /\ IF r.ok THEN Goto("build_with_antora") ELSE Return(1)
    /\ UNCHANGED <<repo_dirs, checkout, repo_pos, sub_pos, repo_has_antora>>
    /\ UNCHANGED <<work_dir, resolverVars, extractVars>>

\* Step 4: if not build_with_antora(container_cmd, WORK_DIR): return 1
MainBuild ==
    /\ pc = "build_with_antora"
    /\ Start("build_with_antora")
    /\ \E ok \in BOOLEAN :
         IF ok THEN Goto("extract_html_content") /\ public' \in MainTrees
         ELSE Return(1) /\ UNCHANGED public
    /\ UNCHANGED <<page_pos, output_dir, unwritable, count, skipped_no_article, parsed,
                   written, run_no, first_run>>
    /\ UNCHANGED <<work_dir, resolverVars, playbookVars>>

\* MainExtract with "if count == 0: return 1" left out
MainExtractWithoutReturn ==
    /\ pc = "extract_html_content"
    /\ Start("extract_html_content")
    /\ SetExtraction(extract_html_content(public, output_dir))
    /\ Goto("cleanup")
    /\ UNCHANGED <<public, page_pos, unwritable, run_no, first_run>>
    /\ UNCHANGED <<work_dir, resolverVars, playbookVars>>

\* Step 5: count = extract_html_content(WORK_DIR, CONTENT_DIR); if count == 0: return 1
MainExtract ==
    /\ pc = "extract_html_content"
    /\ Start("extract_html_content")
    /\ SetExtraction(extract_html_content(public, output_dir))
    /\ IF count' = 0 THEN Return(1) ELSE Goto("cleanup")
    /\ UNCHANGED <<public, page_pos, unwritable, run_no, first_run>>
    /\ UNCHANGED <<work_dir, resolverVars, playbookVars>>

\* cleanup(WORK_DIR): shutil.rmtree(work_dir), with the playbook and the output
\* tree in it
MainCleanup ==
    /\ pc = "cleanup"
    /\ Start("cleanup")
    /\ work_dir' = IF work_dir = "present" THEN "removed" ELSE work_dir
    /\ playbook' = NoFile
    /\ public' = NoPublic
    /\ Goto("run_docs2db_ingest")
    /\ UNCHANGED <<repo_dirs, checkout, repo_pos, sub_pos, repo_has_antora, sources,
                   source_details, seen_components, skipped_duplicates,
                   repos_without_antora, discovered>>
    /\ UNCHANGED <<page_pos, output_dir, unwritable, count, skipped_no_article, parsed,
                   written, run_no, first_run>>
    /\ UNCHANGED resolverVars

\* a docs2db command whose failure is only warned about (steps 6, 9, 11)
Tolerated(stage, next) ==
    /\ pc = stage
    /\ Start(stage)
    /\ Goto(next)
    /\ UNCHANGED <<work_dir, resolverVars, playbookVars, extractVars>>

\* a docs2db command whose failure ends the run (steps 7, 8, 10): return 1
Required(stage, next) ==
    /\ pc = stage
    /\ Start(stage)
    /\ \E ok \in BOOLEAN : IF ok THEN Goto(next) ELSE Return(1)
    /\ UNCHANGED <<work_dir, resolverVars, playbookVars, extractVars>>

\* steps 12 and 13: on failure run_docs2db_db_stop() and return 1
RequiredWithDatabase(stage, next) ==
    /\ pc = stage
    /\ \E ok \in BOOLEAN :
         IF ok THEN Start(stage) /\ Goto(next)
         ELSE started' = started \o <<stage, "run_docs2db_db_stop">> /\ Return(1)
    /\ UNCHANGED <<work_dir, resolverVars, playbookVars, extractVars>>

MainIngest == Tolerated("run_docs2db_ingest", "run_docs2db_chunk")
MainChunk == Required("run_docs2db_chunk", "run_docs2db_embed")
MainEmbed == Required("run_docs2db_embed", "run_docs2db_db_destroy")
MainDbDestroy == Tolerated("run_docs2db_db_destroy", "run_docs2db_db_start")
MainDbStart == Required("run_docs2db_db_start", "run_docs2db_config_refinement")
MainConfig == Tolerated("run_docs2db_config_refinement", "run_docs2db_load")
MainLoad == RequiredWithDatabase("run_docs2db_load", "run_docs2db_db_dump")
MainDump == RequiredWithDatabase("run_docs2db_db_dump", "run_docs2db_db_stop")

\* run_docs2db_db_stop(); return 0
MainDbStop ==
    /\ pc = "run_docs2db_db_stop"
    /\ Start("run_docs2db_db_stop")
    /\ Return(0)
    /\ UNCHANGED <<work_dir, resolverVars, playbookVars, extractVars>>

NextMain ==
    \/ MainPrerequisites \/ MainSiteRepo \/ MainClone \/ MainPlaybook \/ MainBuild
    \/ MainExtract \/ MainCleanup \/ MainIngest \/ MainChunk \/ MainEmbed
    \/ MainDbDestroy \/ MainDbStart \/ MainConfig \/ MainLoad \/ MainDump \/ MainDbStop
SpecMain == InitMain /\ [][NextMain]_vars

Spec == SpecMain

\* ---- main's claims
HasStarted(stage) == stage \in Range(started)
LastStarted == started[Len(started)]
Failed == pc = "done" /\ rc # 0 /\ rc # NoRc

\* C5: when main has returned, the work directory has been deleted only if main
\* returned 0, and has not been deleted if main returned non-zero.
C5_WorkDirKeptOnFailure ==
    pc = "done" =>
        /\ work_dir = "removed" => rc = 0
        /\ rc # 0 => work_dir # "removed"

\* C9: once clone_repos has returned no checkout, or create_antora_playbook has
\* accepted no component, or extract_html_content has extracted no page, main
\* has returned non-zero and the stage that met the condition is the last one
\* started; with no component accepted, no playbook has been written.
C9_FatalConditionsEndTheRun ==
    /\ (HasStarted("clone_repos") /\ repo_dirs = <<>>)
          => (Failed /\ LastStarted = "clone_repos")
    /\ (HasStarted("create_antora_playbook") /\ source_details = <<>>)
          => (Failed /\ LastStarted = "create_antora_playbook" /\ playbook = NoFile)
    /\ (HasStarted("extract_html_content") /\ count = 0)
          => (Failed /\ LastStarted = "extract_html_content")

\* a run whose checkouts hold no manifest: it ends in create_antora_playbook
C9_Witness ==
    /\ pc = "done" /\ rc = 1
    /\ Len(repo_dirs) = 2
    /\ repos_without_antora = repo_dirs
    /\ source_details = <<>>
    /\ LastStarted = "create_antora_playbook"
    /\ playbook = NoFile

\* the other two fatal conditions are reached too
C9_NothingCloned ==
    pc = "done" /\ rc = 1 /\ LastStarted = "clone_repos" /\ repo_dirs = <<>>
C9_NothingExtracted ==
    /\ pc = "done" /\ rc = 1 /\ LastStarted = "extract_html_content" /\ count = 0
    /\ skipped_no_article = 1 /\ playbook # NoFile

====
